---- MODULE Spec2Model ----
(***************************************************************************)
(* Model of the cacophony-processing dispatcher (src/main.py): the wiring  *)
(* of the three Processors, the while-True scheduler loop of main(), and   *)
(* Processor.poll / Processor.reap_completed.  The worker pool (pebble     *)
(* futures), the job source (API.next_job) and the interrupt signal are    *)
(* the environment.                                                        *)
(***************************************************************************)
EXTENDS Integers, Sequences, FiniteSets, TLC

\* ---------------------------------------------------------------- bounds
MaxJobs == 2
MaxWorkers == 2

Jobs == 1..MaxJobs
WorkerCounts == 0..MaxWorkers

VARIABLES
    conf,         \* processing.Config: the three worker counts
    processors,   \* the Processors list; each entry carries its in_progress
    jobs,         \* job source: recording id -> [type, processingState]
    pc,           \* position of the main thread
    idx,          \* index of the wiring call / of `processor` in the for loop
    exc,          \* last exception raised in main() ("none" once a poll() starts)
    log,          \* log records emitted since the current poll() started
    doneAtStart,  \* entries of the polled processor that were done at poll start
    startIds,     \* keys of in_progress of the polled processor at poll start
    polled,       \* indexes of the processors polled in the current pass
    calls         \* next_job calls of the current poll(): arguments and answer

vars == <<conf, processors, jobs, pc, idx, exc, log, doneAtStart, startIds,
          polled, calls>>

\* ------------------------------------------------------------ job source
\* Recording type of a recording id, as stored by the job source.
RecordingTypeOf(j) == IF j % 3 = 0 THEN "thermalRaw" ELSE "audio"

\* The state a recording needs before any processing has happened.
FirstState(type) == IF type = "audio" THEN "toMp3" ELSE "getMetadata"

\* The state the job source gives a recording once the handler of
\* processing_state has reported completion.
NextState(processing_state) ==
    IF processing_state = "toMp3" THEN "analyse" ELSE "FINISHED"

\* api.next_job(recording_type, processing_state): the recordings the job
\* source may answer with (besides None and an error).
next_job(recording_type, processing_state) ==
    {j \in DOMAIN jobs : /\ jobs[j].type = recording_type
                  /\ jobs[j].processingState = processing_state}

\* --------------------------------------------------------------- futures
\* pebble future: running, or done with one of three outcomes.
\*   ok      : the handler returned
\*   raised  : the handler raised; pebble attaches .traceback to the error
\*   crashed : the worker process died; the error (ProcessExpired) has no
\*             .traceback attribute

\* Variant of done: every future is taken for finished.
doneAlways(future) == TRUE

\* future.done()
done(future) == future \in {"ok", "raised", "crashed"}

\* future.exception(): None for a successful unit, the error otherwise.
exception(future) == IF future = "ok" THEN "None" ELSE future

\* Whether reading err.traceback succeeds (otherwise AttributeError).
HasTraceback(err) == err = "raised"

\* ------------------------------------------------------ dict operations
Keys(in_progress) == {in_progress[n].id : n \in 1..Len(in_progress)}

PosOf(in_progress, id) ==
    CHOOSE n \in 1..Len(in_progress) : in_progress[n].id = id

\* self.in_progress[id]
FutureOf(in_progress, id) == in_progress[PosOf(in_progress, id)].future

\* Variant of DictDel: the del statement is missing.
DictDelMissing(in_progress, id) == in_progress

\* Variant of DictDel: the reaped recording is scheduled again instead of
\* being forgotten.
DictDelRequeue(in_progress, id) ==
    [n \in 1..Len(in_progress) |->
        IF in_progress[n].id = id
        THEN [id |-> id, future |-> "running"]
        ELSE in_progress[n]]

\* del self.in_progress[recording_id]
DictDel(in_progress, id) ==
    SelectSeq(in_progress, LAMBDA e : e.id # id)

\* self.in_progress[recording["id"]] = future
\* (an existing key keeps its position and gets the new value)
DictSet(in_progress, id, future) ==
    IF id \in Keys(in_progress)
    THEN [in_progress EXCEPT ![PosOf(in_progress, id)].future = future]
    ELSE Append(in_progress, [id |-> id, future |-> future])

\* ---------------------------------------------------------------- wiring
\* The three processors.add(...) calls of main().
Wiring ==
    << [recording_type |-> "audio", processing_state |-> "toMp3",
        process_func |-> "audio_convert.process"],
       [recording_type |-> "audio", processing_state |-> "analyse",
        process_func |-> "audio_analysis.process"],
       [recording_type |-> "thermalRaw", processing_state |-> "getMetadata",
        process_func |-> "thermal.process"] >>

WorkersOf(n) ==
    IF n = 1 THEN conf.audio_convert_workers
    ELSE IF n = 2 THEN conf.audio_analysis_workers
    ELSE conf.thermal_workers

\* Processor.__init__
Processor(recording_type, processing_state, process_func, num_workers) ==
    [recording_type |-> recording_type,
     processing_state |-> processing_state,
     process_func |-> process_func,
     num_workers |-> num_workers,
     in_progress |-> << >>]

\* Variant of add: only a negative worker count is skipped.
addNonNegative(self, recording_type, processing_state, process_func, num_workers) ==
    IF num_workers < 0
    THEN self
    ELSE Append(self, Processor(recording_type, processing_state,
                                process_func, num_workers))

\* Processors.add
add(self, recording_type, processing_state, process_func, num_workers) ==
    IF num_workers < 1
    THEN self
    ELSE Append(self, Processor(recording_type, processing_state,
                                process_func, num_workers))

\* ------------------------------------------------------------------ Init
Init ==
    /\ conf \in [audio_convert_workers : WorkerCounts,
                 audio_analysis_workers : WorkerCounts,
                 thermal_workers : WorkerCounts]
    /\ processors = << >>
    /\ jobs = [j \in Jobs |->
                 [type |-> RecordingTypeOf(j),
                  processingState |-> FirstState(RecordingTypeOf(j))]]
    /\ pc = "add"
    /\ idx = 1
    /\ exc = "none"
    /\ log = << >>
    /\ doneAtStart = {}
    /\ startIds = {}
    /\ polled = {}
    /\ calls = << >>

\* ------------------------------------------------------ main(): wiring
MainAdd ==
    /\ pc = "add"
    /\ processors' = add(processors, Wiring[idx].recording_type,
                         Wiring[idx].processing_state,
                         Wiring[idx].process_func, WorkersOf(idx))
    /\ IF idx < Len(Wiring)
       THEN /\ idx' = idx + 1
            /\ pc' = "add"
       ELSE /\ idx' = 1
            /\ pc' = "for"
    /\ UNCHANGED <<conf, jobs, exc, log,
                   doneAtStart, startIds, polled, calls>>

\* ------------------------------------------- Processor.reap_completed
\* The body of the for loop over list(self.in_progress.items()), applied to
\* the remaining snapshot `rest`: in_progress is the dict so far, lg the log
\* so far.  It stops at the first entry whose log message cannot be
\* formatted (err.traceback missing): the AttributeError leaves the loop.
RECURSIVE ReapLoop(_, _, _, _)
ReapLoop(self, in_progress, rest, lg) ==
    IF rest = << >>
    THEN [in_progress |-> in_progress, log |-> lg, exc |-> "none"]
    ELSE LET recording_id == Head(rest).id
             future == Head(rest).future
         IN  IF ~done(future)
             THEN ReapLoop(self, in_progress, Tail(rest), lg)
             ELSE LET deleted == DictDel(in_progress, recording_id)
                      err == exception(future)
                  IN  IF err = "None"
                      THEN ReapLoop(self, deleted, Tail(rest), lg)
                      ELSE IF HasTraceback(err)
                      THEN ReapLoop(self, deleted, Tail(rest),
                               Append(lg,
                                  [level |-> "error",
                                   recording_type |-> self.recording_type,
                                   processing_state |-> self.processing_state,
                                   id |-> recording_id,
                                   err |-> err]))
                      ELSE [in_progress |-> deleted, log |-> lg,
                            exc |-> "AttributeError"]

reap_completed(self) == ReapLoop(self, self.in_progress, self.in_progress, << >>)

DoneEntries(in_progress) ==
    {e \in {in_progress[n] : n \in 1..Len(in_progress)} : done(e.future)}

\* ------------------------------------------------- main(): the for loop
\* for processor in processors: processor.poll() -- poll() is entered and
\* self.reap_completed() returns.
PollReap ==
    /\ pc = "for"
    /\ idx <= Len(processors)
    /\ reap_completed(processors[idx]).exc = "none"
    /\ processors' = [processors EXCEPT ![idx].in_progress =
                         reap_completed(processors[idx]).in_progress]
    /\ log' = reap_completed(processors[idx]).log
    /\ pc' = "check"
    /\ doneAtStart' = DoneEntries(processors[idx].in_progress)
    /\ startIds' = Keys(processors[idx].in_progress)
    /\ polled' = polled \cup {idx}
    /\ exc' = "none"
    /\ calls' = << >>
    /\ UNCHANGED <<conf, jobs, idx>>

\* poll() is entered and self.reap_completed() raises.
PollReapRaises ==
    /\ pc = "for"
    /\ idx <= Len(processors)
    /\ reap_completed(processors[idx]).exc # "none"
    /\ processors' = [processors EXCEPT ![idx].in_progress =
                         reap_completed(processors[idx]).in_progress]
    /\ log' = reap_completed(processors[idx]).log
    /\ exc' = reap_completed(processors[idx]).exc
    /\ pc' = "except"
    /\ doneAtStart' = DoneEntries(processors[idx].in_progress)
    /\ startIds' = Keys(processors[idx].in_progress)
    /\ polled' = polled \cup {idx}
    /\ calls' = << >>
    /\ UNCHANGED <<conf, jobs, idx>>

\* The for loop is exhausted: leave the try block and sleep.
ForEnd ==
    /\ pc = "for"
    /\ idx > Len(processors)
    /\ pc' = "sleep"
    /\ UNCHANGED <<conf, processors, jobs, idx, exc,
                   log, doneAtStart, startIds, polled, calls>>

\* ------------------------------------------------------ Processor.poll
\* Variant of Query: the pair is read from the first wiring entry instead
\* of from the processor itself.
QueryFirstWiring(self) ==
    [recording_type |-> Wiring[1].recording_type,
     processing_state |-> Wiring[1].processing_state]

\* The arguments of self.api.next_job(self.recording_type,
\* self.processing_state).
Query(self) ==
    [recording_type |-> self.recording_type,
     processing_state |-> self.processing_state]

\* One call of api.next_job by processor self, with its answer: "recording"
\* (and the recording's id), "None" or "error" (id 0 for the last two).
Call(self, answer, id) ==
    [recording_type |-> Query(self).recording_type,
     processing_state |-> Query(self).processing_state,
     answer |-> answer,
     id |-> id]

\* Variant of AtCapacity: > instead of >=.
AtCapacityStrict(p) == Len(p.in_progress) > p.num_workers

\* if len(self.in_progress) >= self.num_workers: return
AtCapacity(p) == Len(p.in_progress) >= p.num_workers

PollFull ==
    /\ pc = "check"
    /\ AtCapacity(processors[idx])
    /\ pc' = "for"
    /\ idx' = idx + 1
    /\ doneAtStart' = {}
    /\ startIds' = {}
    /\ UNCHANGED <<conf, processors, jobs, exc, log, polled, calls>>

\* api.next_job raises (job source unreachable or erroring).
FetchRaises ==
    /\ pc = "check"
    /\ ~AtCapacity(processors[idx])
    /\ calls' = Append(calls, Call(processors[idx], "error", 0))
    /\ exc' = "JobSourceError"
    /\ pc' = "except"
    /\ UNCHANGED <<conf, processors, jobs, idx, log, doneAtStart, startIds,
                   polled>>

\* Variant of FetchNone: the idle poll writes a debug record.
FetchNoneLogs ==
    /\ pc = "check"
    /\ ~AtCapacity(processors[idx])
    /\ calls' = Append(calls, Call(processors[idx], "None", 0))
    /\ log' = Append(log, [level |-> "debug",
                           recording_type |-> processors[idx].recording_type,
                           processing_state |-> processors[idx].processing_state,
                           id |-> 0,
                           err |-> "None"])
    /\ pc' = "for"
    /\ idx' = idx + 1
    /\ doneAtStart' = {}
    /\ startIds' = {}
    /\ UNCHANGED <<conf, processors, jobs, exc, polled>>

\* api.next_job returns None: idle poll.
FetchNone ==
    /\ pc = "check"
    /\ ~AtCapacity(processors[idx])
    /\ calls' = Append(calls, Call(processors[idx], "None", 0))
    /\ pc' = "for"
    /\ idx' = idx + 1
    /\ doneAtStart' = {}
    /\ startIds' = {}
    /\ UNCHANGED <<conf, processors, jobs, exc, log, polled>>

\* Variant of FetchJobOf: `while` instead of `if`, the poll() fetches again
\* after a submission.
FetchJobOfAgain(j) ==
    /\ pc = "check"
    /\ ~AtCapacity(processors[idx])
    /\ j \in next_job(Query(processors[idx]).recording_type,
                      Query(processors[idx]).processing_state)
    /\ calls' = Append(calls, Call(processors[idx], "recording", j))
    /\ log' = Append(log, [level |-> "debug",
                           recording_type |-> jobs[j].type,
                           processing_state |-> processors[idx].processing_state,
                           id |-> j,
                           err |-> "None"])
    /\ processors' = [processors EXCEPT ![idx].in_progress =
                         DictSet(@, j, "running")]
    /\ UNCHANGED <<conf, jobs, pc, idx, exc, doneAtStart, startIds, polled>>

\* api.next_job returns recording j: schedule it and record the future.
FetchJobOf(j) ==
    /\ pc = "check"
    /\ ~AtCapacity(processors[idx])
    /\ j \in next_job(Query(processors[idx]).recording_type,
                      Query(processors[idx]).processing_state)
    /\ calls' = Append(calls, Call(processors[idx], "recording", j))
    /\ log' = Append(log, [level |-> "debug",
                           recording_type |-> jobs[j].type,
                           processing_state |-> processors[idx].processing_state,
                           id |-> j,
                           err |-> "None"])
    /\ processors' = [processors EXCEPT ![idx].in_progress =
                         DictSet(@, j, "running")]
    /\ pc' = "for"
    /\ idx' = idx + 1
    /\ doneAtStart' = {}
    /\ startIds' = {}
    /\ UNCHANGED <<conf, jobs, exc, polled>>

FetchJob == \E j \in DOMAIN jobs : FetchJobOf(j)

\* ------------------------------------------- main(): except and sleep
\* Variant of Except: the error is logged and raised again.
ExceptReraise ==
    /\ pc = "except"
    /\ log' = Append(log, [level |-> "error",
                           recording_type |-> "None",
                           processing_state |-> "None",
                           id |-> 0,
                           err |-> exc])
    /\ pc' = "exit"
    /\ UNCHANGED <<conf, processors, jobs, idx, exc,
                   doneAtStart, startIds, polled, calls>>

\* except: logger.error(traceback.format_exc())
Except ==
    /\ pc = "except"
    /\ log' = Append(log, [level |-> "error",
                           recording_type |-> "None",
                           processing_state |-> "None",
                           id |-> 0,
                           err |-> exc])
    /\ pc' = "sleep"
    /\ UNCHANGED <<conf, processors, jobs, idx, exc,
                   doneAtStart, startIds, polled, calls>>

\* time.sleep(SLEEP_SECS) returns: next pass of the while loop.
Sleep ==
    /\ pc = "sleep"
    /\ pc' = "for"
    /\ idx' = 1
    /\ polled' = {}
    /\ log' = << >>
    /\ doneAtStart' = {}
    /\ startIds' = {}
    /\ calls' = << >>
    /\ UNCHANGED <<conf, processors, jobs, exc>>

\* ----------------------------------------------------- KeyboardInterrupt
\* Inside the try block the bare `except:` catches it; anywhere else it
\* leaves main() and is suppressed by contextlib.suppress at module level.
InTry == pc \in {"for", "check"}

Interrupt ==
    /\ pc # "exit"
    /\ exc' = "KeyboardInterrupt"
    /\ pc' = IF InTry THEN "except" ELSE "exit"
    /\ UNCHANGED <<conf, processors, jobs, idx, log,
                   doneAtStart, startIds, polled, calls>>

\* ----------------------------------------------------------- worker pool
\* Entry n of processor p is a unit still running in the pool.  The main
\* thread reads futures and the job source only inside poll(), so a unit
\* that ends during the except clause or the sleep is taken to end at the
\* head of the next pass.
Running(p, n) ==
    /\ pc \in {"for", "check"}
    /\ p \in 1..Len(processors)
    /\ n \in 1..Len(processors[p].in_progress)
    /\ processors[p].in_progress[n].future = "running"

\* The handler returns after reporting completion to the job source.
HandlerSucceeds ==
    /\ \E p \in 1..Len(processors) :
         \E n \in 1..Len(processors[p].in_progress) :
            /\ Running(p, n)
            /\ processors' = [processors EXCEPT
                                 ![p].in_progress[n].future = "ok"]
            /\ jobs' = [jobs EXCEPT
                          ![processors[p].in_progress[n].id].processingState =
                              NextState(processors[p].processing_state)]
    /\ UNCHANGED <<conf, pc, idx, exc, log,
                   doneAtStart, startIds, polled, calls>>

\* The handler raises; the job source keeps the recording in its state.
HandlerRaises ==
    /\ \E p \in 1..Len(processors) :
         \E n \in 1..Len(processors[p].in_progress) :
            /\ Running(p, n)
            /\ processors' = [processors EXCEPT
                                 ![p].in_progress[n].future = "raised"]
    /\ UNCHANGED <<conf, jobs, pc, idx, exc, log,
                   doneAtStart, startIds, polled, calls>>

\* The worker process dies while running the unit.
WorkerCrashes ==
    /\ \E p \in 1..Len(processors) :
         \E n \in 1..Len(processors[p].in_progress) :
            /\ Running(p, n)
            /\ processors' = [processors EXCEPT
                                 ![p].in_progress[n].future = "crashed"]
    /\ UNCHANGED <<conf, jobs, pc, idx, exc, log,
                   doneAtStart, startIds, polled, calls>>

Next ==
    \/ MainAdd
    \/ PollReap
    \/ PollReapRaises
    \/ ForEnd
    \/ PollFull
    \/ FetchRaises
    \/ FetchNone
    \/ FetchJob
    \/ Except
    \/ Sleep
    \/ Interrupt
    \/ HandlerSucceeds
    \/ HandlerRaises
    \/ WorkerCrashes

Spec == Init /\ [][Next]_vars

\* --------------------------------------------------- the undisturbed run
\* The run in which the job source does not raise and nobody interrupts.
NextLive ==
    \/ MainAdd
    \/ PollReap
    \/ PollReapRaises
    \/ ForEnd
    \/ PollFull
    \/ FetchNone
    \/ FetchJob
    \/ Except
    \/ Sleep
    \/ HandlerSucceeds
    \/ HandlerRaises
    \/ WorkerCrashes

\* The steps of the main thread: main() runs whenever it can, it waits for
\* nothing but the sleep.
MainLive ==
    \/ MainAdd
    \/ PollReap
    \/ PollReapRaises
    \/ ForEnd
    \/ PollFull
    \/ FetchNone
    \/ FetchJob
    \/ Except
    \/ Sleep

\* A unit in the pool of processor p ends, one way or another.
Completes(p) ==
    /\ p \in 1..Len(processors)
    /\ HandlerSucceeds \/ HandlerRaises \/ WorkerCrashes
    /\ processors'[p] # processors[p]

\* Processor p receives recording j from the job source.
Fetches(p, j) ==
    /\ idx = p
    /\ FetchJobOf(j)

\* main() keeps running, and no pool holds running units for ever without
\* one of them ending (the pools work while main() sleeps as well, so a
\* unit that can end in poll() again and again does end).
Fairness ==
    /\ WF_vars(MainLive)
    /\ \A p \in 1..Len(Wiring) : SF_vars(Completes(p))

SpecLive == Init /\ [][NextLive]_vars /\ Fairness

\* ----------------------------------------- one processor, three recordings
\* The run of main() with two workers for the audio conversion and none
\* for the other two processors, against a job source that holds three
\* audio recordings and hands them out in the order of their ids, each one
\* once; the source does not fail, the handlers succeed (after any delay)
\* and nobody interrupts.
InitTrace ==
    /\ conf = [audio_convert_workers |-> 2,
               audio_analysis_workers |-> 0,
               thermal_workers |-> 0]
    /\ processors = << >>
    /\ jobs = [j \in 1..3 |->
                 [type |-> "audio", processingState |-> FirstState("audio")]]
    /\ pc = "add"
    /\ idx = 1
    /\ exc = "none"
    /\ log = << >>
    /\ doneAtStart = {}
    /\ startIds = {}
    /\ polled = {}
    /\ calls = << >>

Lowest(S) == CHOOSE x \in S : \A y \in S : x <= y

\* The recordings the source still has to hand out to processor self.
Pending(self) ==
    next_job(Query(self).recording_type, Query(self).processing_state)
       \ Keys(self.in_progress)

TraceFetchJob ==
    /\ pc = "check"
    /\ Pending(processors[idx]) # {}
    /\ FetchJobOf(Lowest(Pending(processors[idx])))

TraceFetchNone ==
    /\ pc = "check"
    /\ Pending(processors[idx]) = {}
    /\ FetchNone

NextTrace ==
    \/ MainAdd
    \/ PollReap
    \/ ForEnd
    \/ PollFull
    \/ TraceFetchNone
    \/ TraceFetchJob
    \/ Sleep
    \/ HandlerSucceeds

SpecTrace == InitTrace /\ [][NextTrace]_vars

\* ------------------------------------------------------------ properties
\* The processor whose poll() is executing or has just raised.
Cur == processors[idx]

\* Number of error records for recording id in the log of the current poll.
ErrorRecords(id) ==
    Cardinality({n \in 1..Len(log) : log[n].level = "error" /\ log[n].id = id})

\* C1: for every processor, in_progress never has more entries than
\* num_workers -- in particular when poll() starts and when it returns or
\* raises.
C1_InProgressWithinWorkers ==
    \A p \in 1..Len(processors) :
        Len(processors[p].in_progress) <= processors[p].num_workers

\* C1 witness: a poll() has just returned leaving its processor full, with
\* more than one worker.
C1_Witness ==
    /\ pc = "for"
    /\ idx > 1
    /\ idx - 1 <= Len(processors)
    /\ processors[idx - 1].num_workers > 1
    /\ Len(processors[idx - 1].in_progress) = processors[idx - 1].num_workers

\* C2: when poll() of a processor raises during a pass, every processor
\* registered after it is still polled in that pass: a pass that ends with
\* an error from poll() has polled all processors.
C2_LaterProcessorsStillPolled ==
    (pc = "sleep" /\ exc \in {"AttributeError", "JobSourceError"})
        => polled = 1..Len(processors)

\* C3: a recording id is a key of at most one processor's in_progress.
C3_IdInOneInProgress ==
    \A p, q \in 1..Len(processors) :
        p # q => Keys(processors[p].in_progress)
                    \cap Keys(processors[q].in_progress) = {}

\* C4: every handle returned by pool.schedule is recorded in in_progress
\* as an entry of its own, so that the tracked count is the number of units
\* submitted and not yet reaped and stays within num_workers: a poll() step
\* that submits a unit (it logs "scheduling") adds one entry to in_progress.
C4_SubmissionAddsEntry ==
    [][(pc = "check" /\ pc' = "for" /\ log' # log)
          => Len(processors'[idx].in_progress)
                 = Len(processors[idx].in_progress) + 1]_vars

\* C5: an entry is removed in the first poll() in which its handle reports
\* done, whatever the outcome of the other handles reaped in that poll: once
\* the reap step of a poll() is over (returned or raised), no entry that was
\* done when the poll() started is still tracked.
C5_DoneRemovedInSamePoll ==
    pc \in {"check", "except"}
        => \A e \in doneAtStart : e.id \notin Keys(Cur.in_progress)

\* C6: when reaping raises, all entries whose handles were done are removed
\* before the error leaves poll().
C6_DoneRemovedBeforeReapError ==
    (pc = "except" /\ exc = "AttributeError")
        => Keys(Cur.in_progress) \cap {e.id : e \in doneAtStart} = {}

\* C7: the poll() that reaps a job whose handler raised removes the id, logs
\* exactly one error record for it, does not raise out of the reap step and
\* goes on to the admission check.
C7_HandlerFailureReaped ==
    \A e \in doneAtStart :
        (/\ pc \in {"check", "except"}
         /\ e.future = "raised"
         /\ e.id \notin Keys(Cur.in_progress))
            => /\ ErrorRecords(e.id) = 1
               /\ exc # "AttributeError"

\* C8: the poll() that reaps a unit whose worker crashed removes the entry,
\* logs it and does not raise.
C8_CrashIsFailureOutcome ==
    \A e \in doneAtStart :
        (/\ pc \in {"check", "except"}
         /\ e.future = "crashed"
         /\ e.id \notin Keys(Cur.in_progress))
            => /\ pc = "check" \/ exc \in {"JobSourceError", "KeyboardInterrupt"}
               /\ ErrorRecords(e.id) = 1

\* C9: when next_job raises in a poll(), every entry that was done at the
\* start of that poll() has been removed and its failure logged, no entry
\* has been added, and the error does not end the scheduler loop (the next
\* step of the main thread is the except clause, then the sleep).
C9_State ==
    (pc = "except" /\ exc = "JobSourceError")
        => /\ \A e \in doneAtStart :
                 /\ e.id \notin Keys(Cur.in_progress)
                 /\ exception(e.future) # "None" => ErrorRecords(e.id) = 1
           /\ Keys(Cur.in_progress) \subseteq startIds

C9_Step ==
    (pc = "except" /\ exc = "JobSourceError" /\ pc' # pc)
        => \/ pc' = "sleep"
           \/ exc' = "KeyboardInterrupt"

C9_FetchErrorAfterReap == [] C9_State /\ [][C9_Step]_vars

\* C9 witness: next_job has raised in a poll() that found a failed handle
\* done at its start.
C9_Witness ==
    /\ pc = "except"
    /\ exc = "JobSourceError"
    /\ \E e \in doneAtStart : e.future = "raised"

\* C10: after a KeyboardInterrupt no further poll() is executed and no
\* further next_job call is made: no step taken while the interrupt is the
\* last exception of main() enters a poll().
C10_NoPollAfterInterrupt ==
    [][exc = "KeyboardInterrupt" => pc' # "check"]_vars

\* The main thread takes a step (the environment steps leave pc and idx).
MainStep == pc' # pc \/ idx' # idx

\* C11: an error raised while reaping or by next_job never ends the loop:
\* the except clause is followed by the sleep, the sleep by a new pass that
\* starts at the first processor, and the loop is only left by a
\* KeyboardInterrupt.
C11_OnlyInterruptExits == pc = "exit" => exc = "KeyboardInterrupt"

C11_Step ==
    /\ (pc = "except" /\ MainStep)
          => pc' = "sleep" \/ exc' = "KeyboardInterrupt"
    /\ (pc = "sleep" /\ MainStep)
          => \/ pc' = "for" /\ idx' = 1 /\ polled' = {} /\ exc' = exc
             \/ exc' = "KeyboardInterrupt"

C11_ErrorsDoNotEndLoop == [] C11_OnlyInterruptExits /\ [][C11_Step]_vars

\* C11 witness: a new pass is about to start after a pass that ended with
\* an error raised while reaping.
C11_Witness ==
    /\ pc = "for"
    /\ idx = 1
    /\ exc = "AttributeError"

\* C12: a poll() that finds len(in_progress) >= num_workers after the reap
\* step returns without calling next_job and without submitting; next_job
\* is only called with len(in_progress) < num_workers.
C12_Step ==
    /\ calls' # calls /\ calls' # << >>
          => /\ pc = "check"
             /\ Len(Cur.in_progress) < Cur.num_workers
    /\ (pc = "check" /\ MainStep
           /\ Len(Cur.in_progress) >= Cur.num_workers)
          => /\ calls' = calls
             /\ processors' = processors
             /\ log' = log
             /\ pc' = "for" \/ exc' = "KeyboardInterrupt"

C12_NoFetchAtCapacity == [][C12_Step]_vars

\* C12 witness: a poll() has returned without a next_job call, leaving its
\* processor at capacity.
C12_Witness ==
    /\ pc = "for"
    /\ idx > 1
    /\ calls = << >>
    /\ Len(processors[idx - 1].in_progress) = processors[idx - 1].num_workers

\* C13: a poll() calls next_job at most once and adds at most one entry to
\* in_progress, however many recordings are pending and however many
\* slots are free.
C13_Step ==
    \A p \in 1..Len(processors) :
        Len(processors'[p].in_progress) > Len(processors[p].in_progress)
            => /\ Len(processors'[p].in_progress)
                     = Len(processors[p].in_progress) + 1
               /\ Len(calls') = 1
               /\ p = idx

C13_OneFetchPerPoll == [] (Len(calls) <= 1) /\ [][C13_Step]_vars

\* C13 witness: a poll() has returned after one submission although its
\* processor has a free slot left and another recording is pending for it.
C13_Witness ==
    /\ pc = "for"
    /\ idx > 1
    /\ Len(calls) = 1
    /\ calls[1].answer = "recording"
    /\ Len(processors[idx - 1].in_progress) < processors[idx - 1].num_workers
    /\ next_job(processors[idx - 1].recording_type,
                processors[idx - 1].processing_state)
          \ Keys(processors[idx - 1].in_progress) # {}

\* C14: with two workers and a source that hands out recordings 1, 2, 3 in
\* order: the first poll() fetches and submits 1 (in_progress = {1}); the
\* poll() that starts with 1 still running and 2 not handed out fetches
\* and submits 2 (in_progress = {1, 2}); a poll() that starts with 1 and 2 running makes
\* no next_job call; a poll() that starts with 1 done and 2 running reaps
\* 1 and fetches and submits 3 in the same poll (in_progress = {2, 3}).
C14_Step ==
    (pc = "check" /\ MainStep)
       => /\ (startIds = {} /\ 1 \in Pending(Cur))
                => /\ Cur.in_progress = << >>
                   /\ calls' = << Call(Cur, "recording", 1) >>
                   /\ Keys(processors'[idx].in_progress) = {1}
          /\ (startIds = {1} /\ doneAtStart = {} /\ 2 \in Pending(Cur))
                => /\ calls' = << Call(Cur, "recording", 2) >>
                   /\ Keys(processors'[idx].in_progress) = {1, 2}
          /\ (startIds = {1, 2} /\ doneAtStart = {})
                => /\ calls' = << >>
                   /\ processors' = processors
          /\ (startIds = {1, 2}
                 /\ doneAtStart = {[id |-> 1, future |-> "ok"]})
                => /\ Keys(Cur.in_progress) = {2}
                   /\ calls' = << Call(Cur, "recording", 3) >>
                   /\ Keys(processors'[idx].in_progress) = {2, 3}

C14_Scenario == [][C14_Step]_vars

\* C14 witness: the poll() that reaped recording 1 has fetched recording 3
\* and returned with 2 and 3 in progress.
C14_Witness ==
    /\ pc = "for"
    /\ idx = 2
    /\ jobs[1].processingState = NextState(FirstState("audio"))
    /\ calls = << Call(processors[1], "recording", 3) >>
    /\ Keys(processors[1].in_progress) = {2, 3}
    /\ \A n \in 1..2 : processors[1].in_progress[n].future = "running"

\* Recording j is in the state of processor p's pair and p does not hold it.
Offered(p, j) ==
    /\ pc # "add"
    /\ p \in 1..Len(processors)
    /\ j \in Pending(processors[p])

\* Processor p holds recording j.
Holds(p, j) ==
    /\ p \in 1..Len(processors)
    /\ j \in Keys(processors[p].in_progress)

\* C15: when the job source does not raise, the units in the pools end
\* and nobody interrupts, each recording that the job source keeps
\* offering to a registered processor (it hands the recording out at some
\* time if the processor asks for it again and again) is eventually
\* fetched and submitted by that processor.
C15_BacklogDrains ==
    \A p \in 1..Len(Wiring) : \A j \in Jobs :
        SF_vars(Fetches(p, j)) => (Offered(p, j) ~> Holds(p, j))

\* C15 witness: the second processor, polled after the first, has fetched
\* a recording that reached its processing state while both its workers
\* were busy.
C15_Witness ==
    /\ pc = "for"
    /\ idx = 3
    /\ Len(calls) = 1
    /\ calls[1].answer = "recording"
    /\ Len(processors[2].in_progress) = processors[2].num_workers
    /\ Holds(2, calls[1].id)

\* C16: Processors.add with num_workers < 1 leaves the list of processors
\* unchanged; with num_workers >= 1 it appends exactly one processor with
\* the given recording type, processing state, handler and worker count
\* (and an empty in_progress) at the end, the earlier entries unchanged.
C16_Step ==
    (pc = "add" /\ MainStep /\ pc' # "exit")
       => IF WorkersOf(idx) < 1
          THEN processors' = processors
          ELSE /\ Len(processors') = Len(processors) + 1
               /\ SubSeq(processors', 1, Len(processors)) = processors
               /\ processors'[Len(processors')] =
                     [recording_type |-> Wiring[idx].recording_type,
                      processing_state |-> Wiring[idx].processing_state,
                      process_func |-> Wiring[idx].process_func,
                      num_workers |-> WorkersOf(idx),
                      in_progress |-> << >>]

C16_Registration == [][C16_Step]_vars

\* C16 witness: the wiring is complete, the second add was skipped for a
\* worker count of 0 and the third one appended its processor behind the
\* first.
C16_Witness ==
    /\ pc = "for"
    /\ conf.audio_analysis_workers = 0
    /\ Len(processors) = 2
    /\ processors[1].processing_state = "toMp3"
    /\ processors[2].recording_type = "thermalRaw"
    /\ processors[2].num_workers = conf.thermal_workers

\* C17: a poll() of a processor with an empty in_progress to which
\* next_job answers None changes nothing: in_progress stays empty, no log
\* record is written, nothing is submitted and no recording changes, so
\* that repeating it leaves the same state.
C17_Step ==
    /\ (pc = "for" /\ MainStep /\ pc' # "except"
           /\ idx <= Len(processors) /\ Cur.in_progress = << >>)
          => /\ pc' = "check"
             /\ processors' = processors
             /\ log' = << >>
             /\ jobs' = jobs
    /\ (pc = "check" /\ startIds = {}
           /\ calls' = Append(calls, Call(Cur, "None", 0)))
          => /\ pc' = "for"
             /\ processors' = processors
             /\ Cur.in_progress = << >>
             /\ log' = << >>
             /\ jobs' = jobs

C17_IdlePollNoOp == [][C17_Step]_vars

\* C17 witness: the processor of the thermal recordings, for which no
\* recording is ever pending, has returned from an idle poll().
C17_Witness ==
    /\ pc = "for"
    /\ idx > 1
    /\ processors[idx - 1].recording_type = "thermalRaw"
    /\ processors[idx - 1].in_progress = << >>
    /\ Len(calls) = 1
    /\ calls[1].answer = "None"
    /\ log = << >>

\* Recording id gets a running future in processor p that it did not have.
Submitted(p, id) ==
    /\ id \in Keys(processors'[p].in_progress)
    /\ FutureOf(processors'[p].in_progress, id) = "running"
    /\ ~ /\ id \in Keys(processors[p].in_progress)
         /\ FutureOf(processors[p].in_progress, id) = "running"

\* The step of poll() that runs reap_completed().
ReapStep ==
    /\ pc = "for"
    /\ pc' \in {"check", "except"}
    /\ exc' # "KeyboardInterrupt"

DebugRecords(lg) == SelectSeq(lg, LAMBDA r : r.level = "debug")

\* C18: no retry.  A recording is submitted only in a step of poll() that
\* received it from next_job; each recording received from next_job is
\* submitted exactly once and recorded in in_progress under its id when
\* poll() returns; the reap step, whatever outcomes it reads, submits
\* nothing.
C18_Step ==
    /\ \A p \in 1..Len(processors) : \A id \in DOMAIN jobs :
          Submitted(p, id)
             => /\ pc = "check"
                /\ p = idx
                /\ calls' = Append(calls, Call(Cur, "recording", id))
    /\ \A id \in DOMAIN jobs :
          (pc = "check" /\ calls' = Append(calls, Call(Cur, "recording", id)))
             => /\ pc' = "for"
                /\ id \in Keys(processors'[idx].in_progress)
                /\ FutureOf(processors'[idx].in_progress, id) = "running"
                /\ Len(DebugRecords(log')) = Len(DebugRecords(log)) + 1
                /\ log'[Len(log')].id = id
                /\ \A p \in 1..Len(processors) :
                      p # idx => processors'[p] = processors[p]
    /\ ReapStep
          => /\ DebugRecords(log') = << >>
             /\ calls' = << >>
    /\ Len(DebugRecords(log')) > Len(DebugRecords(log))
          => Len(calls') = Len(calls) + 1

C18_NoRetry == [][C18_Step]_vars

\* C18 witness: a poll() has reaped the failure of a recording that the
\* job source still offers, logged it and returned without submitting it
\* again.
C18_Witness ==
    /\ pc = "for"
    /\ idx > 1
    /\ \E n \in 1..Len(log) :
          /\ log[n].level = "error"
          /\ log[n].id \in next_job(processors[idx - 1].recording_type,
                                    processors[idx - 1].processing_state)
          /\ log[n].id \notin Keys(processors[idx - 1].in_progress)
    /\ Len(calls) = 1
    /\ calls[1].answer = "None"

Unfinished(in_progress) == SelectSeq(in_progress, LAMBDA e : e.future = "running")

\* C19: poll() never waits for a worker.  Whatever the futures are, the
\* reap step and the step after it can always be taken; the reap step
\* leaves every entry whose future is not done as it is, and deletes
\* entries and logs outcomes only of futures that are done.
C19_CanStep ==
    /\ (pc = "for" /\ idx <= Len(processors))
          => ENABLED (PollReap \/ PollReapRaises)
    /\ pc = "check" => ENABLED (PollFull \/ FetchNone)

C19_Step ==
    ReapStep
       => /\ Unfinished(processors'[idx].in_progress)
                = Unfinished(Cur.in_progress)
          /\ \A id \in Keys(Cur.in_progress)
                         \ Keys(processors'[idx].in_progress) :
                FutureOf(Cur.in_progress, id) # "running"
          /\ \A n \in 1..Len(log') :
                /\ log'[n].id \in Keys(Cur.in_progress)
                /\ FutureOf(Cur.in_progress, log'[n].id) # "running"

C19_PollNeverWaits == [] C19_CanStep /\ [][C19_Step]_vars

\* C19 witness: the reap step has removed a finished entry and left a
\* running one behind, and poll() goes on.
C19_Witness ==
    /\ pc = "check"
    /\ startIds \ Keys(Cur.in_progress) # {}
    /\ Unfinished(Cur.in_progress) # << >>

\* C20: the steps of a poll() leave every other processor as it is, and
\* every next_job call is made with the recording type and processing
\* state of the processor that is polled.
C20_Step ==
    /\ (pc \in {"for", "check"} /\ MainStep)
          => \A q \in 1..Len(processors) :
                q # idx => processors'[q] = processors[q]
    /\ (calls' # calls /\ calls' # << >>)
          => /\ calls'[Len(calls')].recording_type = Cur.recording_type
             /\ calls'[Len(calls')].processing_state = Cur.processing_state

C20_PollFrame == [][C20_Step]_vars

\* C20 witness: the second processor has fetched and submitted a recording
\* with its own pair while the first processor holds an entry.
C20_Witness ==
    /\ pc = "for"
    /\ idx = 3
    /\ processors[1].in_progress # << >>
    /\ Len(calls) = 1
    /\ calls[1].answer = "recording"
    /\ calls[1].processing_state = processors[2].processing_state
    /\ calls[1].processing_state # processors[1].processing_state

====
